---- MODULE Spec2Model ----
(***************************************************************************)
(* A model of datalad/plugin/addurls.py: the template Formatter and the    *)
(* RepFormatter, get_subpaths, clean_meta_args, extract, add_urls and the  *)
(* dlplugin driver.                                                        *)
(*                                                                         *)
(* A Python str is a sequence of one-character strings (<<"a", "/">>), so  *)
(* that splitting, joining, lower-casing and decimal formatting are        *)
(* computed rather than assumed.  None is <<"None">> and a raised          *)
(* exception is <<"KeyError">>, ...: one-element sequences whose element   *)
(* is no character, so they never equal a str.                             *)
(***************************************************************************)
EXTENDS Integers, Sequences, FiniteSets, TLC

VARIABLES
    \* RepFormatter instance under test (self.repeats, self.repindex), the
    \* filename template it is bound to, and the log of its format() calls
    repeats, repindex, rep_format, rep_calls,
    \* get_subpaths: the argument and, once it has returned, the list holding
    \* the (filename, spaths) it returned
    sub_filename, sub_result,
    \* Formatter.format: the formatter object, the format string, the row and,
    \* once the call has ended, the list holding the str returned or the
    \* exception raised
    fmt_self, fmt_format, fmt_data, fmt_result,
    \* extract: its arguments and, once the call has ended, the list holding
    \* what it returned or raised
    ext_args, ext_result,
    \* dlplugin: its arguments and the state of the dataset when it is called;
    \* where the generator is; rows and subpaths of extract (subpaths: the
    \* paths the loop over the set has not reached yet); the paths that exist
    \* under dataset.path; the calls that change the dataset, in order; the
    \* results yielded; the list add_urls has built; the index of the loop
    \* that is running; files_to_add
    dl_args, dl_pc, dl_rows, dl_subpaths, dl_fs, dl_calls, dl_results,
    dl_add_results, dl_i, dl_files_to_add,
    \* a helper function called on its own (clean_meta_args,
    \* is_legal_metafield, filter_legal_metafield, get_url_names): which
    \* one, its argument and, once the call has ended, the list holding what
    \* it returned or raised
    fn, fn_arg, fn_result

repVars == <<repeats, repindex, rep_format, rep_calls>>
subVars == <<sub_filename, sub_result>>
fmtVars == <<fmt_self, fmt_format, fmt_data, fmt_result>>
extVars == <<ext_args, ext_result>>
dlVars == <<dl_args, dl_pc, dl_rows, dl_subpaths, dl_fs, dl_calls, dl_results,
            dl_add_results, dl_i, dl_files_to_add>>
fnVars == <<fn, fn_arg, fn_result>>
vars == <<repeats, repindex, rep_format, rep_calls, sub_filename, sub_result,
          fmt_self, fmt_format, fmt_data, fmt_result, ext_args, ext_result,
          dl_args, dl_pc, dl_rows, dl_subpaths, dl_fs, dl_calls, dl_results,
          dl_add_results, dl_i, dl_files_to_add,
          fn, fn_arg, fn_result>>

----------------------------------------------------------------------------
(* Bounds of the model *)

\* calls of RepFormatter.format on one instance
MaxCalls == 3
\* records of the stream given to extract
MaxRecords == 2
\* records of the url_file given to dlplugin
MaxRows == 2
\* "//" markers tried in one path given to get_subpaths
MaxMarkers == 3

----------------------------------------------------------------------------
(* Python values *)

None == <<"None">>
KeyError == <<"KeyError">>
IndexError == <<"IndexError">>
ValueError == <<"ValueError">>
AttributeError == <<"AttributeError">>
Exceptions == {KeyError, IndexError, ValueError, AttributeError}
IsExc(v) == v \in Exceptions

DigitChars == <<"0", "1", "2", "3", "4", "5", "6", "7", "8", "9">>
IsDigit(c) == \E d \in 1..10 : DigitChars[d] = c
DigitVal(c) == (CHOOSE d \in 1..10 : DigitChars[d] = c) - 1

\* str.isdigit() for the ASCII strings of the model
IsDecimal(s) == Len(s) > 0 /\ \A i \in 1..Len(s) : IsDigit(s[i])

RECURSIVE StrToInt(_)
StrToInt(s) ==
    IF Len(s) = 0 THEN 0
    ELSE 10 * StrToInt(SubSeq(s, 1, Len(s) - 1)) + DigitVal(s[Len(s)])

\* str(n) of a non-negative int
RECURSIVE IntToStr(_)
IntToStr(n) ==
    IF n < 10 THEN <<DigitChars[n + 1]>>
    ELSE IntToStr(n \div 10) \o <<DigitChars[(n % 10) + 1]>>

\* the letters of the model that have an upper and a lower case
UpperChars == <<"A", "B", "N", "V", "X">>
LowerChars == <<"a", "b", "n", "v", "x">>
LowerChar(c) ==
    IF \E u \in 1..Len(UpperChars) : UpperChars[u] = c
    THEN LowerChars[CHOOSE u \in 1..Len(UpperChars) : UpperChars[u] = c]
    ELSE c
\* str.lower()
Lower(s) == [i \in 1..Len(s) |-> LowerChar(s[i])]

StartsWith(s, p) == Len(s) >= Len(p) /\ SubSeq(s, 1, Len(p)) = p
EndsWith(s, p) == Len(s) >= Len(p) /\ SubSeq(s, Len(s) - Len(p) + 1, Len(s)) = p

\* index of the first occurrence of sep in s at or after position i, 0 if none
RECURSIVE Find(_, _, _)
Find(s, sep, i) ==
    IF i + Len(sep) - 1 > Len(s) THEN 0
    ELSE IF SubSeq(s, i, i + Len(sep) - 1) = sep THEN i
    ELSE Find(s, sep, i + 1)

\* s.split(sep): left to right, occurrences never overlap
RECURSIVE Split(_, _)
Split(s, sep) ==
    LET i == Find(s, sep, 1) IN
    IF i = 0 THEN <<s>>
    ELSE <<SubSeq(s, 1, i - 1)>> \o Split(SubSeq(s, i + Len(sep), Len(s)), sep)

\* s.split(sep) in the place of s.split(sep, 1)
RECURSIVE Split1_EverySep(_, _)
Split1_EverySep(s, sep) ==
    LET i == Find(s, sep, 1) IN
    IF i = 0 THEN <<s>>
    ELSE <<SubSeq(s, 1, i - 1)>> \o Split1_EverySep(SubSeq(s, i + Len(sep), Len(s)), sep)

\* s.split(sep, 1)
Split1(s, sep) ==
    LET i == Find(s, sep, 1) IN
    IF i = 0 THEN <<s>>
    ELSE <<SubSeq(s, 1, i - 1), SubSeq(s, i + Len(sep), Len(s))>>

\* s.replace(old, new)
RECURSIVE Replace(_, _, _)
Replace(s, old, new) ==
    LET i == Find(s, old, 1) IN
    IF i = 0 THEN s
    ELSE SubSeq(s, 1, i - 1) \o new \o Replace(SubSeq(s, i + Len(old), Len(s)), old, new)

\* the element of a one-element set: {F(v) : v \in {e}} computes e once,
\* however often F uses v
Only(S) == CHOOSE x \in S : TRUE

\* a dict as its items in insertion order: <<  <<key, value>>, ... >>
DictKeys(d) == {d[i][1] : i \in 1..Len(d)}
DictHas(d, k) == k \in DictKeys(d)
DictGet(d, k) == d[CHOOSE i \in 1..Len(d) : d[i][1] = k][2]
\* d.setdefault(k, v) in the place of d[k] = v
DictSet_KeepFirst(d, k, v) == IF DictHas(d, k) THEN d ELSE Append(d, <<k, v>>)
DictSet(d, k, v) ==
    IF DictHas(d, k)
    THEN [i \in 1..Len(d) |-> IF d[i][1] = k THEN <<k, v>> ELSE d[i]]
    ELSE Append(d, <<k, v>>)

----------------------------------------------------------------------------
(* class Formatter(string.Formatter)                                       *)
(*                                                                         *)
(* A format string is the list string.Formatter().parse gives for it:      *)
(* tuples [literal_text, field_name, conversion], field_name and           *)
(* conversion being None for trailing text (format specs are not used).    *)
(* A formatter object is [idx_to_name, missing]; idx_to_name is the list   *)
(* of header names (index N is element N+1), empty for JSON input.         *)

PyStr(s) == [kind |-> "str", text |-> s]
PyInt(n) == [kind |-> "int", text |-> IntToStr(n)]
Raise(e) == [kind |-> "exc", text |-> e]

Lit(s) == [literal_text |-> s, field_name |-> None, conversion |-> None]
Field(s, name) == [literal_text |-> s, field_name |-> name, conversion |-> None]
FieldL(s, name) == [literal_text |-> s, field_name |-> name, conversion |-> <<"l">>]

REPINDEX == <<"_", "r", "e", "p", "i", "n", "d", "e", "x">>

\* str(d) of a dict whose keys are str and whose values are str or int
RECURSIVE DictItemsRepr(_)
DictItemsRepr(d) ==
    IF Len(d) = 0 THEN <<>>
    ELSE LET k == d[1][1]
             v == d[1][2]
             item == <<"'">> \o k \o <<"'", ":", " ">> \o
                     (IF v.kind = "str" THEN <<"'">> \o v.text \o <<"'">> ELSE v.text)
         IN item \o (IF Len(d) > 1 THEN <<",", " ">> ELSE <<>>) \o DictItemsRepr(Tail(d))
DictRepr(d) == <<"{">> \o DictItemsRepr(d) \o <<"}">>

\* string.Formatter.get_value(key, args, kwargs) with args = (data,) and no
\* kwargs: args[key] for an int key, kwargs[key] for a str key
string_Formatter_get_value(key, data) ==
    IF IsDecimal(key)
    THEN IF StrToInt(key) = 0
         THEN [kind |-> "dict", text |-> DictRepr(data)]
         ELSE Raise(IndexError)
    ELSE Raise(KeyError)

\* Formatter.get_value that ignores self.missing
Formatter_get_value_NoMissing(self, key, data) ==
    LET key_is_int == IsDecimal(key)
        in_map == key_is_int /\ StrToInt(key) < Len(self.idx_to_name)
        name == IF key_is_int
                THEN (IF in_map THEN self.idx_to_name[StrToInt(key) + 1] ELSE None)
                ELSE key
    IN  IF key_is_int /\ ~in_map THEN Raise(KeyError)
        ELSE IF ~DictHas(data, name) THEN string_Formatter_get_value(key, data)
        ELSE DictGet(data, name)

\* Formatter.get_value.  key is the first part of the field name, an int
\* when it is all digits (int(key) of any other key of the model raises
\* ValueError, so the key is the name).
Formatter_get_value(self, key, data) ==
    LET key_is_int == IsDecimal(key)
        in_map == key_is_int /\ StrToInt(key) < Len(self.idx_to_name)
        name == IF key_is_int
                THEN (IF in_map THEN self.idx_to_name[StrToInt(key) + 1] ELSE None)
                ELSE key
    IN  IF key_is_int /\ ~in_map THEN Raise(KeyError)
        ELSE IF ~DictHas(data, name) THEN string_Formatter_get_value(key, data)
        ELSE LET value == DictGet(data, name) IN
             IF self.missing # None /\ value.kind = "str"
             THEN (IF value.text # <<>> THEN value ELSE PyStr(self.missing))
             ELSE value

\* RepFormatter.get_value: the row gets the current _repindex first
RepFormatter_get_value(self, rep, key, data) ==
    Only({Formatter_get_value(self, key, with_repindex) :
             with_repindex \in {DictSet(data, REPINDEX, PyInt(rep))}})

\* Formatter.convert_field
convert_field(value, conversion) ==
    IF conversion = <<"l">> THEN PyStr(Lower(value.text)) ELSE value

\* string.Formatter.get_field: the field name up to its first "." is looked
\* up with get_value; a ".attr" after it is getattr on the value, which no
\* str, int or dict of the model has
get_field(self, rep, field_name, data) ==
    LET parts == Split(field_name, <<".">>)
        obj == IF rep >= 0
               THEN RepFormatter_get_value(self, rep, parts[1], data)
               ELSE Formatter_get_value(self, parts[1], data)
    IN  IF obj.kind = "exc" \/ Len(parts) = 1 THEN obj ELSE Raise(AttributeError)

\* Formatter.format(format_string, data): the str, or the exception raised.
\* rep is the RepFormatter's repindex, -1 for a plain Formatter.
RECURSIVE vformat(_, _, _, _)
vformat(self, rep, format_string, data) ==
    IF Len(format_string) = 0 THEN <<>>
    ELSE LET t == Head(format_string)
             Then(obj, rest) ==
                 IF obj.kind = "exc" THEN obj.text
                 ELSE IF IsExc(rest) THEN rest
                 ELSE t.literal_text \o convert_field(obj, t.conversion).text \o rest
         IN  Only({Then(obj, rest) :
                      obj \in {IF t.field_name = None THEN PyStr(<<>>)
                               ELSE get_field(self, rep, t.field_name, data)},
                      rest \in {vformat(self, rep, Tail(format_string), data)}})

Formatter_format(self, format_string, data) == vformat(self, -1, format_string, data)

----------------------------------------------------------------------------
(* class RepFormatter(Formatter)                                           *)

\* self.repeats after RepFormatter.format; reps is a dict str -> int
RepLookup(reps, result) == DictGet(reps, result)

\* RepFormatter.format that forgets to store the new count of a repeat
RepFormatter_format_NoStore(self, reps, format_string, data) ==
    LET first == vformat(self, 0, format_string, data) IN
    IF IsExc(first) THEN [result |-> first, repeats |-> reps, repindex |-> 0]
    ELSE IF DictHas(reps, first)
    THEN LET idx == RepLookup(reps, first) + 1 IN
         [result |-> vformat(self, idx, format_string, data),
          repeats |-> reps,
          repindex |-> idx]
    ELSE [result |-> first, repeats |-> DictSet(reps, first, 0), repindex |-> 0]

\* RepFormatter.format: [result, repeats, repindex] after the call
RepFormatter_format(self, reps, format_string, data) ==
    LET first == vformat(self, 0, format_string, data) IN
    IF IsExc(first) THEN [result |-> first, repeats |-> reps, repindex |-> 0]
    ELSE IF DictHas(reps, first)
    THEN LET idx == RepLookup(reps, first) + 1 IN
         [result |-> vformat(self, idx, format_string, data),
          repeats |-> DictSet(reps, first, idx),
          repindex |-> idx]
    ELSE [result |-> first, repeats |-> DictSet(reps, first, 0), repindex |-> 0]


----------------------------------------------------------------------------
(* get_subpaths *)

SEP == <<"/">>
MARKER == <<"/", "/">>

\* posixpath.join(a, *p) of a non-empty list of components
RECURSIVE os_path_join_from(_, _)
os_path_join_from(path, p) ==
    IF Len(p) = 0 THEN path
    ELSE LET b == Head(p)
             next == IF StartsWith(b, SEP) THEN b
                     ELSE IF path = <<>> \/ EndsWith(path, SEP) THEN path \o b
                     ELSE path \o SEP \o b
         IN os_path_join_from(next, Tail(p))
os_path_join(parts) == os_path_join_from(Head(parts), Tail(parts))

\* the loop of get_subpaths over filename.split("//")[:-1]
RECURSIVE SubpathLoop(_, _)
SubpathLoop(parts, spaths) ==
    IF Len(parts) = 0 THEN spaths
    ELSE SubpathLoop(Tail(parts),
                     Append(spaths, os_path_join(spaths \o <<Head(parts)>>)))

get_subpaths(filename) ==
    IF Find(filename, MARKER, 1) = 0
    THEN [filename |-> filename, spaths |-> <<>>]
    ELSE LET parts == Split(filename, MARKER) IN
         [filename |-> Replace(filename, MARKER, SEP),
          spaths |-> SubpathLoop(SubSeq(parts, 1, Len(parts) - 1), <<>>)]

----------------------------------------------------------------------------
(* clean_meta_args, is_legal_metafield, fmt_to_name, _read, get_url_names  *)

\* str.strip() with no argument, and str.strip(chars) for one character
RECURSIVE LStrip(_, _)
LStrip(s, c) == IF Len(s) > 0 /\ s[1] = c THEN LStrip(Tail(s), c) ELSE s
RECURSIVE RStrip(_, _)
RStrip(s, c) ==
    IF Len(s) > 0 /\ s[Len(s)] = c THEN RStrip(SubSeq(s, 1, Len(s) - 1), c) ELSE s
StripChar(s, c) == RStrip(LStrip(s, c), c)
Strip(s) == StripChar(s, " ")

\* clean_meta_args over the metadata format strings of one row:
\* args is the generator (fmt(row) for fmt in formats_meta), so a format
\* string is resolved only when the loop reaches it.  [exc, val]: the
\* exception raised (None when it returns) and the dict returned.
RECURSIVE clean_meta_args_loop(_, _, _, _)
clean_meta_args_loop(self, formats_meta, row, results) ==
    IF Len(formats_meta) = 0 THEN [exc |-> None, val |-> results]
    ELSE LET arg == Formatter_format(self, Head(formats_meta), row) IN
         IF IsExc(arg) THEN [exc |-> arg, val |-> <<>>]
         ELSE LET split == Split1(arg, <<"=">>)
                  parts == [i \in 1..Len(split) |-> Strip(split[i])]
              IN  IF Len(parts) # 2 \/ parts[1] = <<>>
                  THEN [exc |-> ValueError, val |-> <<>>]
                  ELSE clean_meta_args_loop(
                           self, Tail(formats_meta), row,
                           IF parts[2] = <<>> THEN results
                           ELSE DictSet(results, parts[1], parts[2]))
clean_meta_args(self, formats_meta, row) ==
    clean_meta_args_loop(self, formats_meta, row, <<>>)

\* the ASCII characters of the model, in code point order
ASCII ==
    << " ", "'", "*", ",", "-", ".", "/",
       "0", "1", "2", "3", "4", "5", "6", "7", "8", "9", ":", "=",
       "A", "B", "C", "D", "E", "F", "G", "H", "I", "J", "K", "L", "M",
       "N", "O", "P", "Q", "R", "S", "T", "U", "V", "W", "X", "Y", "Z", "_",
       "a", "b", "c", "d", "e", "f", "g", "h", "i", "j", "k", "l", "m",
       "n", "o", "p", "q", "r", "s", "t", "u", "v", "w", "x", "y", "z",
       "{", "}" >>
Ord(c) == CHOOSE i \in 1..Len(ASCII) : ASCII[i] = c
\* [a-zA-Z0-9]
IsAlnum(c) == (Ord("0") <= Ord(c) /\ Ord(c) <= Ord("9"))
              \/ (Ord("A") <= Ord(c) /\ Ord(c) <= Ord("Z"))
              \/ (Ord("a") <= Ord(c) /\ Ord(c) <= Ord("z"))

\* re.match(r"[a-zA-Z0-9_.-]+\Z", name)
is_legal_metafield_AnyFirst(name) ==
    /\ Len(name) >= 1
    /\ \A i \in 1..Len(name) : IsAlnum(name[i]) \/ name[i] \in {"_", ".", "-"}

\* re.match(r"[a-zA-Z0-9][a-zA-Z0-9_.-]*\Z", name)
is_legal_metafield(name) ==
    /\ Len(name) >= 1
    /\ IsAlnum(name[1])
    /\ \A i \in 2..Len(name) : IsAlnum(name[i]) \/ name[i] \in {"_", ".", "-"}

\* filter_legal_metafield that drops nothing
filter_legal_metafield_KeepAll(fields) == fields

RECURSIVE filter_legal_metafield(_)
filter_legal_metafield(fields) ==
    IF Len(fields) = 0 THEN <<>>
    ELSE (IF is_legal_metafield(Head(fields)) THEN <<Head(fields)>> ELSE <<>>)
         \o filter_legal_metafield(Tail(fields))

\* a < b for str
RECURSIVE StrLess(_, _)
StrLess(a, b) ==
    IF Len(b) = 0 THEN FALSE
    ELSE IF Len(a) = 0 THEN TRUE
    ELSE IF a[1] # b[1] THEN Ord(a[1]) < Ord(b[1])
    ELSE StrLess(Tail(a), Tail(b))

\* sorted(S) of a set of str
RECURSIVE Sorted(_)
Sorted(S) ==
    IF S = {} THEN <<>>
    ELSE LET least == CHOOSE x \in S : \A y \in S \ {x} : StrLess(x, y)
         IN  <<least>> \o Sorted(S \ {least})

\* get_fmt_names
get_fmt_names(format_string) ==
    {format_string[i].field_name : i \in 1..Len(format_string)} \ {None, <<>>}

\* fmt_to_name that maps no format string to a name
fmt_to_name_Never(format_string, num_to_name) == None

\* fmt_to_name
fmt_to_name(format_string, num_to_name) ==
    IF Len(format_string) # 1 THEN None
    ELSE IF format_string[1].literal_text # <<>> THEN None
    ELSE LET name == format_string[1].field_name IN
         IF name = None \/ name = <<>> THEN None
         ELSE IF IsDecimal(name) /\ StrToInt(name) < Len(num_to_name)
         THEN num_to_name[StrToInt(name) + 1]
         ELSE name

\* dict(zip(headers, r)) of _read: a row shorter than the header lacks the
\* last names, a longer one is cut
zip_dict(headers, r) ==
    [i \in 1..(IF Len(r) < Len(headers) THEN Len(r) ELSE Len(headers)) |->
        <<headers[i], PyStr(r[i])>>]

\* idx_map of _read: dict(enumerate(headers)) for csv, {} for json
idx_map(input_type, headers) == IF input_type = "csv" THEN headers ELSE <<>>

\* rows of _read.  A stream is [headers, records]: for csv the header line
\* and the later lines, for json the objects, each given as the list of its
\* values for the first names of headers.
read_rows(stream) ==
    [i \in 1..Len(stream.records) |-> zip_dict(stream.headers, stream.records[i])]

\* position of the first character of s at or after i that is in chars,
\* Len(s) + 1 if there is none
RECURSIVE FindAny(_, _, _)
FindAny(s, chars, i) ==
    IF i > Len(s) THEN Len(s) + 1
    ELSE IF s[i] \in chars THEN i
    ELSE FindAny(s, chars, i + 1)

\* urlparse(url): [netloc, path].  The scheme is the text before the first
\* ":" when that text is made of scheme characters; the netloc follows
\* "//" and ends at "/", "?" or "#"; the path ends at "?" or "#".
urlparse(url) ==
    LET colon == Find(url, <<":">>, 1)
        is_scheme == colon > 1 /\ \A i \in 1..(colon - 1) :
                         IsAlnum(url[i]) \/ url[i] \in {"+", "-", "."}
        rest == IF is_scheme THEN SubSeq(url, colon + 1, Len(url)) ELSE url
        has_netloc == StartsWith(rest, MARKER)
        delim == FindAny(rest, {"/", "?", "#"}, 3)
        after == IF has_netloc THEN SubSeq(rest, delim, Len(rest)) ELSE rest
    IN  [netloc |-> IF has_netloc THEN SubSeq(rest, 3, delim - 1) ELSE <<>>,
         path |-> SubSeq(after, 1, FindAny(after, {"?", "#"}, 1) - 1)]

URL_ == <<"_", "u", "r", "l">>
URL_HOSTNAME == URL_ \o <<"_", "h", "o", "s", "t", "n", "a", "m", "e">>
URL_BASENAME == URL_ \o <<"_", "b", "a", "s", "e", "n", "a", "m", "e">>

\* get_url_names without names["_url_basename"] = url_parts[-1]
get_url_names_NoBasename(url) ==
    LET parsed == urlparse(url)
        path == StripChar(parsed.path, "/")
        url_parts == Split(path, SEP)
    IN  IF parsed.netloc = <<>> THEN <<>>
        ELSE IF path = <<>> THEN << <<URL_HOSTNAME, PyStr(parsed.netloc)>> >>
        ELSE << <<URL_HOSTNAME, PyStr(parsed.netloc)>> >>
             \o [i \in 1..Len(url_parts) |->
                    <<URL_ \o IntToStr(i - 1), PyStr(url_parts[i])>>]

\* get_url_names: the dict of names, values being str
get_url_names(url) ==
    LET parsed == urlparse(url)
        path == StripChar(parsed.path, "/")
        url_parts == Split(path, SEP)
    IN  IF parsed.netloc = <<>> THEN <<>>
        ELSE IF path = <<>> THEN << <<URL_HOSTNAME, PyStr(parsed.netloc)>> >>
        ELSE << <<URL_HOSTNAME, PyStr(parsed.netloc)>> >>
             \o [i \in 1..Len(url_parts) |->
                    <<URL_ \o IntToStr(i - 1), PyStr(url_parts[i])>>]
             \o << <<URL_BASENAME, PyStr(url_parts[Len(url_parts)])>> >>

\* dict.update
RECURSIVE DictUpdate(_, _)
DictUpdate(d, items) ==
    IF Len(items) = 0 THEN d
    ELSE DictUpdate(DictSet(d, items[1][1], items[1][2]), Tail(items))

----------------------------------------------------------------------------
(* extract                                                                 *)
(*                                                                         *)
(* The arguments are a record [stream, input_type, url_format,             *)
(* filename_format, exclude_autometa, meta, missing_value].  An exclusion  *)
(* pattern is a literal string: re.search finds it as a substring.         *)

STAR == <<"*">>

\* auto_meta_args: [exc, val], val the format strings c + "={" + c + "}",
\* exc the IndexError of rows[0] when there is no row
auto_meta_args(a, rows) ==
    IF a.exclude_autometa \in {STAR, <<>>} THEN [exc |-> None, val |-> <<>>]
    ELSE IF Len(rows) = 0 THEN [exc |-> IndexError, val |-> <<>>]
    ELSE LET urlcol == fmt_to_name(a.url_format, idx_map(a.input_type, a.stream.headers))
             cols == {c \in DictKeys(rows[1]) : c # urlcol}
             kept == IF a.exclude_autometa # None
                     THEN {c \in cols : Find(c, a.exclude_autometa, 1) = 0}
                     ELSE cols
             metacols == filter_legal_metafield(Sorted(kept))
         IN  [exc |-> None,
              val |-> [i \in 1..Len(metacols) |->
                          <<Field(metacols[i] \o <<"=">>, metacols[i])>>]]

\* the first loop of extract without the test that drops a row
RECURSIVE url_pass_NoDrop(_, _, _, _, _, _)
url_pass_NoDrop(self, a, formats_meta, rows, rows_with_url, infos) ==
    IF Len(rows) = 0
    THEN [exc |-> None, rows_with_url |-> rows_with_url, infos |-> infos]
    ELSE LET Kept(row, url, meta_args) ==
                 IF meta_args.exc # None
                 THEN [exc |-> meta_args.exc, rows_with_url |-> <<>>, infos |-> <<>>]
                 ELSE url_pass_NoDrop(self, a, formats_meta, Tail(rows),
                               Append(rows_with_url, row),
                               Append(infos, [url |-> url, meta_args |-> meta_args.val]))
             Step(row, url) ==
                 IF IsExc(url) THEN [exc |-> url, rows_with_url |-> <<>>, infos |-> <<>>]
                 ELSE Only({Kept(row, url, meta_args) :
                               meta_args \in {clean_meta_args(self, formats_meta, row)}})
         IN  Only({Step(row, url) :
                      row \in {Head(rows)},
                      url \in {Formatter_format(self, a.url_format, Head(rows))}})

\* the first loop of extract: [exc, rows_with_url, infos]
RECURSIVE url_pass(_, _, _, _, _, _)
url_pass(self, a, formats_meta, rows, rows_with_url, infos) ==
    IF Len(rows) = 0
    THEN [exc |-> None, rows_with_url |-> rows_with_url, infos |-> infos]
    ELSE LET Kept(row, url, meta_args) ==
                 IF meta_args.exc # None
                 THEN [exc |-> meta_args.exc, rows_with_url |-> <<>>, infos |-> <<>>]
                 ELSE url_pass(self, a, formats_meta, Tail(rows),
                               Append(rows_with_url, row),
                               Append(infos, [url |-> url, meta_args |-> meta_args.val]))
             Step(row, url) ==
                 IF IsExc(url) THEN [exc |-> url, rows_with_url |-> <<>>, infos |-> <<>>]
                 ELSE IF url = <<>> \/ url = a.missing_value
                 THEN url_pass(self, a, formats_meta, Tail(rows), rows_with_url, infos)
                 ELSE Only({Kept(row, url, meta_args) :
                               meta_args \in {clean_meta_args(self, formats_meta, row)}})
         IN  Only({Step(row, url) :
                      row \in {Head(rows)},
                      url \in {Formatter_format(self, a.url_format, Head(rows))}})

\* the second loop: row.update(get_url_names(info["url"]))
url_names_pass(a, rows_with_url, infos) ==
    IF \E n \in get_fmt_names(a.filename_format) : StartsWith(n, URL_)
    THEN [i \in 1..Len(rows_with_url) |->
             DictUpdate(rows_with_url[i], get_url_names(infos[i].url))]
    ELSE rows_with_url

\* _format_filenames: [exc, infos, subpaths], exc the exception of format_fn
RECURSIVE format_filenames(_, _, _, _, _, _, _)
format_filenames(self, filename_format, rows, row_infos, reps, done, subpaths) ==
    IF Len(rows) = 0 THEN [exc |-> None, infos |-> done, subpaths |-> subpaths]
    ELSE LET Rest(r, sp) ==
                 format_filenames(
                     self, filename_format, Tail(rows), Tail(row_infos), r.repeats,
                     Append(done, [url |-> Head(row_infos).url,
                                   meta_args |-> Head(row_infos).meta_args,
                                   filename |-> sp.filename,
                                   subpath |-> IF Len(sp.spaths) > 0
                                               THEN sp.spaths[Len(sp.spaths)] ELSE None]),
                     subpaths \cup {sp.spaths[i] : i \in 1..Len(sp.spaths)})
             Step(r) ==
                 IF IsExc(r.result) THEN [exc |-> r.result, infos |-> <<>>, subpaths |-> {}]
                 ELSE Only({Rest(r, sp) : sp \in {get_subpaths(r.result)}})
         IN  Only({Step(r) : r \in {RepFormatter_format(self, reps, filename_format,
                                                        Head(rows))}})

\* extract: [exc, infos, subpaths]: the exception raised (None when it
\* returns), the list of descriptors and the set of subdataset paths
extract(a) ==
    LET self == [idx_to_name |-> idx_map(a.input_type, a.stream.headers),
                 missing |-> a.missing_value]
        Filenames(pass, rows_with_url) ==
            format_filenames(self, a.filename_format, rows_with_url, pass.infos,
                             <<>>, <<>>, {})
        SecondPass(pass) ==
            IF pass.exc # None THEN [exc |-> pass.exc, infos |-> <<>>, subpaths |-> {}]
            ELSE Only({Filenames(pass, rows_with_url) :
                          rows_with_url \in {url_names_pass(a, pass.rows_with_url,
                                                            pass.infos)}})
        FirstPass(rows, auto) ==
            IF auto.exc # None THEN [exc |-> auto.exc, infos |-> <<>>, subpaths |-> {}]
            ELSE Only({SecondPass(pass) :
                          pass \in {url_pass(self, a, a.meta \o auto.val, rows,
                                             <<>>, <<>>)}})
    IN  Only({FirstPass(rows, auto_meta_args(a, rows)) : rows \in {read_rows(a.stream)}})

----------------------------------------------------------------------------
(* Specification SpecRep: one RepFormatter, format() called on row after   *)
(* row.                                                                    *)

RepHeaders == << <<"a">>, <<"b">> >>
RepSelf == [idx_to_name |-> RepHeaders, missing |-> None]

\* "{a}{_repindex}{b}" and "{0!l}-{_repindex}"
RepFormats ==
    { <<Field(<<>>, <<"a">>), Field(<<>>, REPINDEX), Field(<<>>, <<"b">>)>>,
      <<FieldL(<<>>, <<"0">>), Field(<<"-">>, REPINDEX)>> }

RepRows ==
    { << << <<"a">>, PyStr(a) >>, << <<"b">>, PyStr(b) >> >> :
        a \in {<<"x">>, <<"x", "1">>, <<"X">>}, b \in {<<>>, <<"0">>} }

IdleSub == sub_filename = <<>> /\ sub_result = <<>>
IdleFmt == fmt_self = <<>> /\ fmt_format = <<>> /\ fmt_data = <<>> /\ fmt_result = <<>>
IdleExt == ext_args = <<>> /\ ext_result = <<>>
IdleFn == fn = "none" /\ fn_arg = <<>> /\ fn_result = <<>>
IdleDl ==
    /\ dl_args = <<>> /\ dl_pc = "idle" /\ dl_rows = <<>> /\ dl_subpaths = {}
    /\ dl_fs = {} /\ dl_calls = <<>> /\ dl_results = <<>> /\ dl_add_results = <<>>
    /\ dl_i = 0 /\ dl_files_to_add = {}

InitRep ==
    /\ repeats = <<>>
    /\ repindex = 0
    /\ rep_format \in RepFormats
    /\ rep_calls = <<>>
    /\ IdleSub
    /\ IdleFmt
    /\ IdleExt
    /\ IdleDl
    /\ IdleFn

\* format_fn(row) in _format_filenames: one call of RepFormatter.format
RepFormat(row) ==
    /\ Len(rep_calls) < MaxCalls
    /\ LET r == RepFormatter_format(RepSelf, repeats, rep_format, row) IN
        /\ repeats' = r.repeats
        /\ repindex' = r.repindex
        /\ rep_calls' = Append(rep_calls,
                               [data |-> row, result |-> r.result, repindex |-> r.repindex])
    /\ UNCHANGED <<rep_format, subVars, fmtVars, extVars, dlVars, fnVars>>

NextRep == \E row \in RepRows : RepFormat(row)

SpecRep == InitRep /\ [][NextRep]_vars

----------------------------------------------------------------------------
(* Specification SpecSub: get_subpaths applied to a path.                  *)

SubSegments == {<<"a">>, <<"b">>}
SubSeparators == {SEP, MARKER}

\* paths of n + 1 non-empty segments
RECURSIVE PathsOf(_)
PathsOf(n) ==
    IF n = 0 THEN SubSegments
    ELSE {p \o sep \o s : p \in PathsOf(n - 1), sep \in SubSeparators, s \in SubSegments}

SubPaths == UNION {PathsOf(n) : n \in 0..MaxMarkers}

IdleRep == repeats = <<>> /\ repindex = 0 /\ rep_format = <<>> /\ rep_calls = <<>>

InitSub ==
    /\ sub_filename \in SubPaths
    /\ sub_result = <<>>
    /\ IdleRep
    /\ IdleFmt
    /\ IdleExt
    /\ IdleDl
    /\ IdleFn

GetSubpaths ==
    /\ sub_result = <<>>
    /\ sub_result' = <<get_subpaths(sub_filename)>>
    /\ UNCHANGED <<sub_filename, repVars, fmtVars, extVars, dlVars, fnVars>>

NextSub == GetSubpaths

SpecSub == InitSub /\ [][NextSub]_vars


----------------------------------------------------------------------------
(* Specification SpecExt: extract applied to a stream.                     *)

ExtHeaders == << <<"u">>, <<"f">>, <<"_", "m">> >>
ExtUrl == <<"h", ":", "/", "/", "d", "/", "p">>

\* a full row; a row with the same file name and no "_m" value; a row with
\* no URL; a row whose URL is the text "N"; a row with no "f" value; a
\* blank line
ExtRecordSet ==
    { <<ExtUrl, <<"x">>, <<"v">>>>,
      <<ExtUrl, <<"x">>, <<>>>>,
      <<<<>>, <<"x">>, <<"v">>>>,
      <<<<"N">>, <<"a", "/", "/", "x">>, <<"v">>>>,
      <<ExtUrl, <<>>, <<"v">>>>,
      <<>> }

RECURSIVE SeqsUpTo(_, _)
SeqsUpTo(S, n) ==
    IF n = 0 THEN {<<>>}
    ELSE LET shorter == SeqsUpTo(S, n - 1) IN
         shorter \cup {Append(q, x) : q \in {t \in shorter : Len(t) = n - 1}, x \in S}

\* "{0}", "{u}"
ExtUrlFormats == { <<Field(<<>>, <<"0">>)>>, <<Field(<<>>, <<"u">>)>> }
\* "{1}", "{f}-{_repindex}", "{_url_hostname}//{f}"
ExtFilenameFormats ==
    { <<Field(<<>>, <<"1">>)>>,
      <<Field(<<>>, <<"f">>), Field(<<"-">>, REPINDEX)>>,
      <<Field(<<>>, URL_HOSTNAME), Field(MARKER, <<"f">>)>> }
\* None, "*", "" and the pattern "f"
ExtExcludes == {None, STAR, <<>>, <<"f">>}
\* no meta; "_k={f}"; "f = {_m}"; "{f}"
ExtMetas ==
    { <<>>,
      << <<Field(<<"_", "k", "=">>, <<"f">>)>> >>,
      << <<Field(<<"f", " ", "=", " ">>, <<"_", "m">>)>> >>,
      << <<Field(<<>>, <<"f">>)>> >> }
ExtMissing == {None, <<"N">>}

InitExt ==
    /\ \E records \in SeqsUpTo(ExtRecordSet, MaxRecords),
          input_type \in {"csv", "json"},
          url_format \in ExtUrlFormats,
          filename_format \in ExtFilenameFormats,
          exclude_autometa \in ExtExcludes,
          meta \in ExtMetas,
          missing_value \in ExtMissing :
           ext_args = [stream |-> [headers |-> ExtHeaders, records |-> records],
                       input_type |-> input_type,
                       url_format |-> url_format,
                       filename_format |-> filename_format,
                       exclude_autometa |-> exclude_autometa,
                       meta |-> meta,
                       missing_value |-> missing_value]
    /\ ext_result = <<>>
    /\ IdleRep
    /\ IdleSub
    /\ IdleFmt
    /\ IdleDl
    /\ IdleFn

Extract ==
    /\ ext_result = <<>>
    /\ ext_result' = <<extract(ext_args)>>
    /\ UNCHANGED <<ext_args, repVars, subVars, fmtVars, dlVars, fnVars>>

NextExt == Extract

SpecExt == InitExt /\ [][NextExt]_vars

----------------------------------------------------------------------------
(* Claims about RepFormatter (SpecRep) *)

\* C2: with a filename template that references _repindex, every string
\* RepFormatter.format returns differs from every string it returned
\* earlier on the same instance.
C2_ResultsPairwiseDistinct ==
    \A i, j \in 1..Len(rep_calls) :
        (i < j /\ ~IsExc(rep_calls[i].result) /\ ~IsExc(rep_calls[j].result))
            => rep_calls[i].result # rep_calls[j].result

\* the base string of a call: its row resolved with _repindex = 0
RepBase(call) == vformat(RepSelf, 0, rep_format, call.data)
\* how many earlier calls had the same base string as call i
RepEarlierSame(i) ==
    Cardinality({j \in 1..(i - 1) : RepBase(rep_calls[j]) = RepBase(rep_calls[i])})

\* C3: among the rows that resolve to the same base string, the k-th one
\* (k = 0, 1, ...) in call order is resolved with _repindex = k, and the
\* strings returned for them are pairwise distinct.
C3_SameBaseIndexedInOrder ==
    \A i \in 1..Len(rep_calls) :
        /\ rep_calls[i].repindex = RepEarlierSame(i)
        /\ rep_calls[i].result =
               vformat(RepSelf, RepEarlierSame(i), rep_format, rep_calls[i].data)
        /\ \A j \in 1..(i - 1) :
               RepBase(rep_calls[j]) = RepBase(rep_calls[i])
                   => rep_calls[j].result # rep_calls[i].result

\* three rows, not all the same row, with one base string: the third got 2
C3_Witness ==
    /\ Len(rep_calls) = 3
    /\ RepBase(rep_calls[1]) = RepBase(rep_calls[2])
    /\ RepBase(rep_calls[2]) = RepBase(rep_calls[3])
    /\ rep_calls[1].data # rep_calls[2].data
    /\ rep_calls[3].repindex = 2

----------------------------------------------------------------------------
(* Claims about get_subpaths (SpecSub) *)

RECURSIVE JoinWith(_, _)
JoinWith(parts, sep) ==
    IF Len(parts) = 1 THEN parts[1]
    ELSE parts[1] \o sep \o JoinWith(Tail(parts), sep)

\* C4: for a path with k markers get_subpaths returns k boundary paths, the
\* i-th being the first i marker-delimited segments joined by single
\* separators, and the flat path with every marker collapsed; with no
\* marker, the path unchanged and no boundary.
C4_BoundariesAreCumulativePrefixes ==
    sub_result # <<>> =>
        LET parts == Split(sub_filename, MARKER) IN
        /\ sub_result[1].filename = JoinWith(parts, SEP)
        /\ Len(sub_result[1].spaths) = Len(parts) - 1
        /\ \A i \in 1..(Len(parts) - 1) :
               sub_result[1].spaths[i] = JoinWith(SubSeq(parts, 1, i), SEP)


----------------------------------------------------------------------------
(* Specification SpecFmt: Formatter.format applied to one row.             *)

FmtHeaders == << <<"u">>, <<"n">> >>

FmtMissing == {None, <<"N", "A">>, <<>>}

\* "{n}", "{1}", "{n!l}", "p{1!l}", "{u}-{n}", "{0}", "{2}", "{z}"
FmtFormats ==
    { <<Field(<<>>, <<"n">>)>>,
      <<Field(<<>>, <<"1">>)>>,
      <<FieldL(<<>>, <<"n">>)>>,
      <<FieldL(<<"p">>, <<"1">>)>>,
      <<Field(<<>>, <<"u">>), Field(<<"-">>, <<"n">>)>>,
      <<Field(<<>>, <<"0">>)>>,
      <<Field(<<>>, <<"2">>)>>,
      <<Field(<<>>, <<"z">>)>> }

FmtValues == {<<>>, <<"v">>, <<"V">>}
FmtRecords ==
    {<<>>} \cup {<<u>> : u \in FmtValues} \cup {<<u, n>> : u, n \in FmtValues}

InitFmt ==
    /\ \E input_type \in {"csv", "json"}, missing_value \in FmtMissing :
           fmt_self = [idx_to_name |-> idx_map(input_type, FmtHeaders),
                       missing |-> missing_value]
    /\ fmt_format \in FmtFormats
    /\ \E r \in FmtRecords : fmt_data = zip_dict(FmtHeaders, r)
    /\ fmt_result = <<>>
    /\ IdleRep
    /\ IdleSub
    /\ IdleExt
    /\ IdleDl
    /\ IdleFn

\* fmt.format(format_string, row)
FormatRow ==
    /\ fmt_result = <<>>
    /\ fmt_result' = <<Formatter_format(fmt_self, fmt_format, fmt_data)>>
    /\ UNCHANGED <<fmt_self, fmt_format, fmt_data, repVars, subVars, extVars, dlVars, fnVars>>

NextFmt == FormatRow

SpecFmt == InitFmt /\ [][NextFmt]_vars

----------------------------------------------------------------------------
(* Claims about Formatter (SpecFmt) *)

\* the row field a placeholder names: itself, or for {N} the N-th header
\* name (None when the positional-index map has no N)
PlaceholderName(self, field_name) ==
    IF IsDecimal(field_name)
    THEN (IF StrToInt(field_name) < Len(self.idx_to_name)
          THEN self.idx_to_name[StrToInt(field_name) + 1] ELSE None)
    ELSE field_name

\* the format string is one placeholder (after optional text) whose field
\* the row holds
FmtOnePresentField ==
    /\ Len(fmt_format) = 1
    /\ DictHas(fmt_data, PlaceholderName(fmt_self, fmt_format[1].field_name))
FmtFieldText == DictGet(fmt_data, PlaceholderName(fmt_self, fmt_format[1].field_name)).text

\* C8: with a missing-value string configured, a placeholder whose field is
\* the empty string resolves to the missing-value string verbatim, for
\* {name}, {N} and {name!l} alike; a non-empty value is never replaced.
C8_MissingVerbatimEveryForm ==
    (fmt_result # <<>> /\ fmt_self.missing # None /\ FmtOnePresentField) =>
        fmt_result[1] = fmt_format[1].literal_text \o
            (IF FmtFieldText = <<>> THEN fmt_self.missing
             ELSE IF fmt_format[1].conversion = <<"l">> THEN Lower(FmtFieldText)
             ELSE FmtFieldText)

\* C8 amended: as C8, except that under the lowercase conversion {name!l}
\* the missing-value string is lower-cased like any other value.
C8_MissingThenConversion ==
    (fmt_result # <<>> /\ fmt_self.missing # None /\ FmtOnePresentField) =>
        LET fetched == IF FmtFieldText = <<>> THEN fmt_self.missing ELSE FmtFieldText IN
        fmt_result[1] = fmt_format[1].literal_text \o
            (IF fmt_format[1].conversion = <<"l">> THEN Lower(fetched) ELSE fetched)

\* an empty field under {n!l} with the missing value "NA" gave "na"
C8_Witness ==
    /\ fmt_result = << <<"n", "a">> >>
    /\ fmt_self.missing = <<"N", "A">>
    /\ fmt_format[1].conversion = <<"l">>
    /\ FmtOnePresentField
    /\ FmtFieldText = <<>>

\* a placeholder of the format string names a field the row does not hold
FmtRefersToAbsentField ==
    \E i \in 1..Len(fmt_format) :
        /\ fmt_format[i].field_name # None
        /\ ~DictHas(fmt_data, PlaceholderName(fmt_self, fmt_format[i].field_name))

\* C9: resolving a template with a placeholder whose field is absent from
\* the row raises an error and returns no string, for named and positional
\* placeholders alike.
C9_AbsentFieldRaises ==
    (fmt_result # <<>> /\ FmtRefersToAbsentField) => IsExc(fmt_result[1])


----------------------------------------------------------------------------
(* Claims about extract (SpecExt) *)

ExtRows == read_rows(ext_args.stream)
ExtSelf == [idx_to_name |-> idx_map(ext_args.input_type, ext_args.stream.headers),
            missing |-> ext_args.missing_value]
ExtReturned == ext_result # <<>> /\ ext_result[1].exc = None
\* the resolved URL of the i-th input row
ExtRowUrl(i) == Formatter_format(ExtSelf, ext_args.url_format, ExtRows[i])
\* the input rows whose URL is neither empty nor the missing-value string,
\* by index, in source order
ExtKept ==
    SelectSeq([i \in 1..Len(ExtRows) |-> i],
              LAMBDA i : ExtRowUrl(i) # <<>> /\ ExtRowUrl(i) # ext_args.missing_value)
\* the j-th kept row as the filename pass sees it
ExtKeptRow(j) ==
    IF \E n \in get_fmt_names(ext_args.filename_format) : StartsWith(n, URL_)
    THEN DictUpdate(ExtRows[ExtKept[j]], get_url_names(ExtRowUrl(ExtKept[j])))
    ELSE ExtRows[ExtKept[j]]
ExtKeptBase(j) == vformat(ExtSelf, 0, ext_args.filename_format, ExtKeptRow(j))
\* the file name of the j-th kept row when only kept rows count as repeats
ExtKeptName(j) ==
    vformat(ExtSelf,
            Cardinality({k \in 1..(j - 1) : ExtKeptBase(k) = ExtKeptBase(j)}),
            ext_args.filename_format, ExtKeptRow(j))

\* C6: extract returns one descriptor per input row whose URL is neither
\* empty nor the missing-value string, in source order; a dropped row gives
\* no descriptor, no boundary path and no increment of the repetition
\* index.
C6_OneDescriptorPerRowWithUrl ==
    ExtReturned =>
        LET infos == ext_result[1].infos IN
        /\ Len(infos) = Len(ExtKept)
        /\ \A j \in 1..Len(infos) :
               /\ infos[j].url = ExtRowUrl(ExtKept[j])
               /\ infos[j].filename = get_subpaths(ExtKeptName(j)).filename
        /\ ext_result[1].subpaths =
               UNION { LET sp == get_subpaths(ExtKeptName(j)).spaths
                       IN  {sp[i] : i \in 1..Len(sp)} : j \in 1..Len(infos) }

\* a row without URL that has the file name of the row after it: the later
\* row is the only descriptor and its index is 0
C6_Witness ==
    /\ ExtReturned
    /\ Len(ExtRows) = 2
    /\ ExtKept = <<2>>
    /\ REPINDEX \in get_fmt_names(ext_args.filename_format)
    /\ DictGet(ExtRows[1], <<"f">>) = DictGet(ExtRows[2], <<"f">>)
    /\ ext_result[1].infos[1].filename = <<"x", "-", "0">>

\* C7: every field name in the meta_args of every descriptor is a legal
\* metadata field name, whatever the explicit and auto-derived templates.
C7_AllMetaFieldsLegal ==
    ExtReturned =>
        \A j \in 1..Len(ext_result[1].infos) :
            \A field \in DictKeys(ext_result[1].infos[j].meta_args) :
                is_legal_metafield(field)

\* the field names the explicit meta templates give for the j-th kept row
ExtExplicitFields(j) ==
    { Strip(Split1(Formatter_format(ExtSelf, ext_args.meta[m], ExtRows[ExtKept[j]]),
                   <<"=">>)[1]) : m \in 1..Len(ext_args.meta) }

\* C7 amended: every field name in meta_args that is not the field name of
\* an explicit meta template is a legal metadata field name.
C7_AutoMetaFieldsLegal ==
    ExtReturned =>
        \A j \in 1..Len(ext_result[1].infos) :
            \A field \in DictKeys(ext_result[1].infos[j].meta_args) :
                is_legal_metafield(field) \/ field \in ExtExplicitFields(j)

\* a descriptor holding the explicit field "_k" and the auto-derived field
\* "f", while the column "_m", which has a value, gave no field
C7_Witness ==
    /\ ExtReturned
    /\ Len(ext_result[1].infos) >= 1
    /\ DictKeys(ext_result[1].infos[1].meta_args) = {<<"_", "k">>, <<"f">>}
    /\ DictGet(ExtRows[ExtKept[1]], <<"_", "m">>).text # <<>>


----------------------------------------------------------------------------
(* add_urls, add_meta and dlplugin (specification Spec)                    *)
(*                                                                         *)
(* Paths are relative to dataset.path.  dl_args is [url_file, repo,        *)
(* dry_run, ifexists, extract, existing]: repo is what dataset.repo is     *)
(* ("none", "annex" or "git"), extract the arguments given on to extract,  *)
(* existing the paths that exist when dlplugin is called.                  *)

\* a call that changes the dataset, as logged in dl_calls
Call(op, path, arg, ok) == [op |-> op, path |-> path, arg |-> arg, ok |-> ok]
\* get_status_dict(action=..., status=..., path=..., message=...)
get_status_dict(action, status, path, message) ==
    [action |-> action, status |-> status, path |-> path, message |-> message]

\* len(rows) != len(set(row["filename"] for row in rows)) that is never true
has_collisions_Never(rows) == FALSE

\* len(rows) != len(set(row["filename"] for row in rows))
has_collisions(rows) ==
    Len(rows) # Cardinality({rows[i].filename : i \in 1..Len(rows)})

\* the directories above path, and path itself
PathAndParents(path) ==
    LET parts == Split(path, SEP) IN
    {JoinWith(SubSeq(parts, 1, n), SEP) : n \in 1..Len(parts)}

\* os.path.relpath(filename_abs, ds_current.path) for a file below the
\* subdataset (every subpath of the model is a prefix of its file name)
relpath(filename, subpath) ==
    IF StartsWith(filename, subpath \o SEP)
    THEN SubSeq(filename, Len(subpath) + 2, Len(filename))
    ELSE filename

\* row.update({"filename_abs": ..., "ds": ..., "ds_filename": ...})
with_bookkeeping(row) ==
    [url |-> row.url, meta_args |-> row.meta_args, filename |-> row.filename,
     subpath |-> row.subpath,
     filename_abs |-> row.filename,
     ds |-> IF row.subpath # None THEN row.subpath ELSE <<>>,
     ds_filename |-> IF row.subpath # None THEN relpath(row.filename, row.subpath)
                     ELSE row.filename]

\* exc_str(exc) of the AnnexBatchCommandError of a failed add_url_to_file
ADD_FAILED == "AnnexBatchCommandError"

DlUrl == <<"h", ":", "/", "/", "d", "/", "p">>
DlHeaders == << <<"u">>, <<"f">>, <<"m">> >>
\* a file at the top; a file below the nested subdatasets a and a/b, with
\* no metadata; a file in the subdataset a
DlRecordSet ==
    { <<DlUrl, <<"x">>, <<"v">>>>,
      <<DlUrl, <<"a", "/", "/", "b", "/", "/", "y">>, <<>>>>,
      <<DlUrl, <<"a", "/", "/", "x">>, <<"v">>>> }
\* paths that may exist beforehand: the file x, the directory a
DlExisting == SUBSET {<<"x">>, <<"a">>}

Init ==
    /\ \E url_file \in {"None", "urls.csv"},
          repo \in {"none", "annex", "git"},
          dry_run \in BOOLEAN,
          ifexists \in {"None", "skip", "overwrite"},
          exclude_autometa \in {None, STAR},
          records \in SeqsUpTo(DlRecordSet, MaxRows),
          existing \in DlExisting :
           dl_args = [url_file |-> url_file, repo |-> repo, dry_run |-> dry_run,
                      ifexists |-> ifexists, existing |-> existing,
                      extract |->
                          [stream |-> [headers |-> DlHeaders, records |-> records],
                           input_type |-> "csv",
                           url_format |-> <<Field(<<>>, <<"u">>)>>,
                           filename_format |-> <<Field(<<>>, <<"f">>)>>,
                           exclude_autometa |-> exclude_autometa,
                           meta |-> <<>>,
                           missing_value |-> None]]
    /\ dl_pc = "start"
    /\ dl_rows = <<>>
    /\ dl_subpaths = {}
    /\ dl_fs = dl_args.existing
    /\ dl_calls = <<>>
    /\ dl_results = <<>>
    /\ dl_add_results = <<>>
    /\ dl_i = 0
    /\ dl_files_to_add = {}
    /\ IdleRep
    /\ IdleSub
    /\ IdleFmt
    /\ IdleExt
    /\ IdleFn

NotDl == <<repVars, subVars, fmtVars, extVars, fnVars>>

\* dlplugin ends with one result and without having touched the dataset
YieldAndReturn(status, message) ==
    /\ dl_results' = <<get_status_dict("addurls", status, None, message)>>
    /\ dl_pc' = "done"
    /\ UNCHANGED <<dl_args, dl_subpaths, dl_fs, dl_calls, dl_add_results, dl_i,
                   dl_files_to_add, NotDl>>

\* lines 617-625
DlNoUrlFile ==
    /\ dl_pc = "start"
    /\ dl_args.url_file = "None"
    /\ YieldAndReturn("error", "Must specify url_file argument")
    /\ UNCHANGED dl_rows

\* lines 627-632
DlNotAnnex ==
    /\ dl_pc = "start"
    /\ dl_args.url_file # "None"
    /\ dl_args.repo = "git"
    /\ YieldAndReturn("error", "not an annex repo")
    /\ UNCHANGED dl_rows

\* lines 638-642: me.extract returns rows and subpaths, or raises and
\* dlplugin with it
DlExtract ==
    /\ dl_pc = "start"
    /\ dl_args.url_file # "None"
    /\ dl_args.repo # "git"
    /\ \E ex \in {extract(dl_args.extract)} :
        /\ dl_pc' = IF ex.exc # None THEN "raised" ELSE "extracted"
        /\ dl_rows' = ex.infos
        /\ dl_subpaths' = ex.subpaths
    /\ UNCHANGED <<dl_args, dl_fs, dl_calls, dl_results, dl_add_results, dl_i,
                   dl_files_to_add, NotDl>>

\* lines 644-650
DlCollision ==
    /\ dl_pc = "extracted"
    /\ has_collisions(dl_rows)
    /\ YieldAndReturn("error", "There are file name collisions; consider using {_repindex}")
    /\ UNCHANGED dl_rows

\* lines 652-665
DlDryRun ==
    /\ dl_pc = "extracted"
    /\ ~has_collisions(dl_rows)
    /\ dl_args.dry_run
    /\ YieldAndReturn("ok", "dry-run finished")
    /\ UNCHANGED dl_rows

\* lines 667-672 reached in a dry run as well
DlBegin_AlsoDry ==
    /\ dl_pc = "extracted"
    /\ ~has_collisions(dl_rows)
    /\ IF dl_args.repo = "none"
       THEN /\ dl_calls' = <<Call("create", <<>>, <<>>, TRUE)>>
            /\ dl_results' = <<get_status_dict("create", "ok", <<>>, "")>>
       ELSE UNCHANGED <<dl_calls, dl_results>>
    /\ dl_pc' = "subdatasets"
    /\ UNCHANGED <<dl_args, dl_rows, dl_subpaths, dl_fs, dl_add_results, dl_i,
                   dl_files_to_add, NotDl>>

\* lines 667-672: dataset.create() when there is no repository yet
DlBegin ==
    /\ dl_pc = "extracted"
    /\ ~has_collisions(dl_rows)
    /\ ~dl_args.dry_run
    /\ IF dl_args.repo = "none"
       THEN /\ dl_calls' = <<Call("create", <<>>, <<>>, TRUE)>>
            /\ dl_results' = <<get_status_dict("create", "ok", <<>>, "")>>
       ELSE UNCHANGED <<dl_calls, dl_results>>
    /\ dl_pc' = "subdatasets"
    /\ UNCHANGED <<dl_args, dl_rows, dl_subpaths, dl_fs, dl_add_results, dl_i,
                   dl_files_to_add, NotDl>>

\* lines 674-678: the loop over the set subpaths reaches a path that exists
DlSubpathExists(spath) ==
    /\ dl_pc = "subdatasets"
    /\ spath \in dl_subpaths
    /\ spath \in dl_fs
    /\ dl_subpaths' = dl_subpaths \ {spath}
    /\ UNCHANGED <<dl_args, dl_pc, dl_rows, dl_fs, dl_calls, dl_results,
                   dl_add_results, dl_i, dl_files_to_add, NotDl>>

\* lines 674-682: dataset.create(spath); the directory spath and the
\* directories above it exist afterwards
DlCreateSubdataset(spath) ==
    /\ dl_pc = "subdatasets"
    /\ spath \in dl_subpaths
    /\ spath \notin dl_fs
    /\ dl_subpaths' = dl_subpaths \ {spath}
    /\ dl_calls' = Append(dl_calls, Call("create", spath, <<>>, TRUE))
    /\ dl_fs' = dl_fs \cup PathAndParents(spath)
    /\ dl_results' = Append(dl_results, get_status_dict("create", "ok", spath, ""))
    /\ UNCHANGED <<dl_args, dl_pc, dl_rows, dl_add_results, dl_i, dl_files_to_add,
                   NotDl>>

\* lines 684-695
DlPrepareRows ==
    /\ dl_pc = "subdatasets"
    /\ dl_subpaths = {}
    /\ dl_rows' = [i \in 1..Len(dl_rows) |-> with_bookkeeping(dl_rows[i])]
    /\ dl_pc' = "add_urls"
    /\ dl_i' = 1
    /\ UNCHANGED <<dl_args, dl_subpaths, dl_fs, dl_calls, dl_results, dl_add_results,
                   dl_files_to_add, NotDl>>

\* add_urls is at a row
AddUrlsAtRow == dl_pc = "add_urls" /\ dl_i <= Len(dl_rows)
\* os.path.exists(filename_abs) or os.path.islink(filename_abs)
AddUrlsExists == dl_rows[dl_i].filename_abs \in dl_fs
\* lines 433-445 with no os.unlink
AddUrlsUnlinked_Never == dl_calls

\* lines 433-445 when the row is not skipped: os.unlink under "overwrite"
AddUrlsUnlinked ==
    IF AddUrlsExists /\ dl_args.ifexists = "overwrite"
    THEN Append(dl_calls, Call("unlink", dl_rows[dl_i].filename_abs, <<>>, TRUE))
    ELSE dl_calls

\* add_urls, lines 433-440
AddUrlsSkip ==
    /\ AddUrlsAtRow
    /\ AddUrlsExists
    /\ dl_args.ifexists = "skip"
    /\ dl_add_results' =
           Append(dl_add_results,
                  get_status_dict("addurls", "notneeded", dl_rows[dl_i].filename_abs, ""))
    /\ dl_i' = dl_i + 1
    /\ UNCHANGED <<dl_args, dl_pc, dl_rows, dl_subpaths, dl_fs, dl_calls, dl_results,
                   dl_files_to_add, NotDl>>

\* add_urls, lines 433-463: add_url_to_file succeeds
AddUrlsOk ==
    /\ AddUrlsAtRow
    /\ ~(AddUrlsExists /\ dl_args.ifexists = "skip")
    /\ dl_calls' = Append(AddUrlsUnlinked,
                          Call("add_url", dl_rows[dl_i].filename_abs, dl_rows[dl_i].url, TRUE))
    /\ dl_fs' = dl_fs \cup PathAndParents(dl_rows[dl_i].filename_abs)
    /\ dl_add_results' =
           Append(dl_add_results,
                  get_status_dict("addurls", "ok", dl_rows[dl_i].filename_abs, ""))
    /\ dl_i' = dl_i + 1
    /\ UNCHANGED <<dl_args, dl_pc, dl_rows, dl_subpaths, dl_results, dl_files_to_add,
                   NotDl>>

\* add_urls, lines 433-457 with the batch given up at the first failure
AddUrlsFails_Abort ==
    /\ AddUrlsAtRow
    /\ ~(AddUrlsExists /\ dl_args.ifexists = "skip")
    /\ dl_calls' = Append(AddUrlsUnlinked,
                          Call("add_url", dl_rows[dl_i].filename_abs, dl_rows[dl_i].url, FALSE))
    /\ dl_fs' = IF AddUrlsExists /\ dl_args.ifexists = "overwrite"
                THEN dl_fs \ {dl_rows[dl_i].filename_abs} ELSE dl_fs
    /\ dl_add_results' =
           Append(dl_add_results,
                  get_status_dict("addurls", "error", dl_rows[dl_i].filename_abs, ADD_FAILED))
    /\ dl_i' = Len(dl_rows) + 1
    /\ UNCHANGED <<dl_args, dl_pc, dl_rows, dl_subpaths, dl_results, dl_files_to_add,
                   NotDl>>

\* add_urls, lines 433-457: add_url_to_file raises AnnexBatchCommandError
AddUrlsFails ==
    /\ AddUrlsAtRow
    /\ ~(AddUrlsExists /\ dl_args.ifexists = "skip")
    /\ dl_calls' = Append(AddUrlsUnlinked,
                          Call("add_url", dl_rows[dl_i].filename_abs, dl_rows[dl_i].url, FALSE))
    /\ dl_fs' = IF AddUrlsExists /\ dl_args.ifexists = "overwrite"
                THEN dl_fs \ {dl_rows[dl_i].filename_abs} ELSE dl_fs
    /\ dl_add_results' =
           Append(dl_add_results,
                  get_status_dict("addurls", "error", dl_rows[dl_i].filename_abs, ADD_FAILED))
    /\ dl_i' = dl_i + 1
    /\ UNCHANGED <<dl_args, dl_pc, dl_rows, dl_subpaths, dl_results, dl_files_to_add,
                   NotDl>>

\* lines 697-701: the list add_urls returns is yielded result by result
DlAddUrlsReturned ==
    /\ dl_pc = "add_urls"
    /\ dl_i > Len(dl_rows)
    /\ dl_results' = dl_results \o dl_add_results
    /\ dl_files_to_add' =
           {dl_add_results[k].path :
               k \in {n \in 1..Len(dl_add_results) : dl_add_results[n].status = "ok"}}
    /\ dl_pc' = "added"
    /\ UNCHANGED <<dl_args, dl_rows, dl_subpaths, dl_fs, dl_calls, dl_add_results, dl_i,
                   NotDl>>

\* line 710, nothing was added
DlNothingAdded ==
    /\ dl_pc = "added"
    /\ dl_files_to_add = {}
    /\ dl_pc' = "done"
    /\ UNCHANGED <<dl_args, dl_rows, dl_subpaths, dl_fs, dl_calls, dl_results,
                   dl_add_results, dl_i, dl_files_to_add, NotDl>>

\* lines 710-712: dataset.add(files_to_add, message=msg)
DlAdd ==
    /\ dl_pc = "added"
    /\ dl_files_to_add # {}
    /\ dl_calls' = Append(dl_calls, Call("add", <<>>, dl_files_to_add, TRUE))
    /\ dl_results' = Append(dl_results, get_status_dict("add", "ok", <<>>, ""))
    /\ dl_pc' = "add_meta"
    /\ dl_i' = 1
    /\ UNCHANGED <<dl_args, dl_rows, dl_subpaths, dl_fs, dl_add_results,
                   dl_files_to_add, NotDl>>

\* line 714 without the test on files_to_add
meta_rows_All == dl_rows

\* line 714
meta_rows ==
    SelectSeq(dl_rows, LAMBDA r : r.filename_abs \in dl_files_to_add)

\* add_meta, lines 470-478, and lines 715-716: set_metadata for one row
AddMeta ==
    /\ dl_pc = "add_meta"
    /\ dl_i <= Len(meta_rows)
    /\ dl_calls' = Append(dl_calls,
                          Call("set_metadata", meta_rows[dl_i].filename_abs,
                               meta_rows[dl_i].meta_args, TRUE))
    /\ dl_results' = Append(dl_results,
                            get_status_dict("metadata", "ok", meta_rows[dl_i].filename_abs, ""))
    /\ dl_i' = dl_i + 1
    /\ UNCHANGED <<dl_args, dl_pc, dl_rows, dl_subpaths, dl_fs, dl_add_results,
                   dl_files_to_add, NotDl>>

\* dlplugin returns
DlReturn ==
    /\ dl_pc = "add_meta"
    /\ dl_i > Len(meta_rows)
    /\ dl_pc' = "done"
    /\ UNCHANGED <<dl_args, dl_rows, dl_subpaths, dl_fs, dl_calls, dl_results,
                   dl_add_results, dl_i, dl_files_to_add, NotDl>>

Next ==
    \/ DlNoUrlFile
    \/ DlNotAnnex
    \/ DlExtract
    \/ DlCollision
    \/ DlDryRun
    \/ DlBegin
    \/ \E spath \in dl_subpaths : DlSubpathExists(spath)
    \/ \E spath \in dl_subpaths : DlCreateSubdataset(spath)
    \/ DlPrepareRows
    \/ AddUrlsSkip
    \/ AddUrlsOk
    \/ AddUrlsFails
    \/ DlAddUrlsReturned
    \/ DlNothingAdded
    \/ DlAdd
    \/ AddMeta
    \/ DlReturn

Spec == Init /\ [][Next]_vars


----------------------------------------------------------------------------
(* Claims about dlplugin and add_urls (specification Spec)                 *)

\* the filenames of the descriptors extract returned are pairwise distinct
DlFilenamesDistinct ==
    \A i, j \in 1..Len(dl_rows) : i # j => dl_rows[i].filename # dl_rows[j].filename

\* C1: when two descriptors returned by extract share a filename, dlplugin
\* yields exactly one error outcome for the whole batch and makes no call
\* that changes the dataset (no create, unlink, add_url, add, set_metadata);
\* so whenever such a call has been made the filenames are pairwise distinct.
C1_CollisionOneErrorNoMutation ==
    /\ ~DlFilenamesDistinct =>
          /\ dl_calls = <<>>
          /\ dl_pc \in {"extracted", "done"}
          /\ dl_pc = "done" =>
                /\ Len(dl_results) = 1
                /\ dl_results[1].action = "addurls"
                /\ dl_results[1].status = "error"
          /\ dl_pc = "extracted" => dl_results = <<>>
    /\ dl_calls # <<>> => DlFilenamesDistinct

\* a run over descriptors with a shared filename has ended
C1_Witness ==
    /\ dl_pc = "done"
    /\ ~DlFilenamesDistinct
    /\ Len(dl_results) = 1

\* the subpaths extract returned for the arguments of the run
DlBoundarySet == extract(dl_args.extract).subpaths

\* C5: in a run that is not a dry run, every boundary path that did not
\* exist before the run has a create call at that path earlier than any
\* add_url call, whatever the order the loop takes the boundary paths in,
\* nested boundary paths included.
C5_ContainersCreatedBeforeFirstAdd ==
    \A k \in 1..Len(dl_calls) :
        dl_calls[k].op = "add_url" =>
            \A sp \in DlBoundarySet :
                sp \notin dl_args.existing =>
                    \E j \in 1..(k - 1) :
                        dl_calls[j].op = "create" /\ dl_calls[j].path = sp

\* the add_url calls made for path, as the set of their outcomes
AddUrlCallsFor(path) ==
    {dl_calls[k].ok : k \in {n \in 1..Len(dl_calls) :
                                dl_calls[n].op = "add_url" /\ dl_calls[n].path = path}}

\* C10: add_urls yields one outcome per descriptor in the order of the
\* descriptors: "ok" where add_url_to_file succeeded, "error" with the
\* message of the exception where it failed, "notneeded" where it was not
\* called; rows after a failed one are processed all the same, so that
\* add_urls returns with as many outcomes as there are descriptors.
C10_OneOutcomePerDescriptorInOrder ==
    /\ dl_pc = "add_urls" => Len(dl_add_results) = dl_i - 1
    /\ dl_pc \in {"added", "add_meta"} => Len(dl_add_results) = Len(dl_rows)
    /\ dl_pc \in {"add_urls", "added", "add_meta"} =>
          \A k \in 1..Len(dl_add_results) :
              /\ dl_add_results[k].path = dl_rows[k].filename_abs
              /\ dl_add_results[k].action = "addurls"
              /\ \/ /\ dl_add_results[k].status = "ok"
                    /\ AddUrlCallsFor(dl_rows[k].filename_abs) = {TRUE}
                 \/ /\ dl_add_results[k].status = "error"
                    /\ dl_add_results[k].message = ADD_FAILED
                    /\ AddUrlCallsFor(dl_rows[k].filename_abs) = {FALSE}
                 \/ /\ dl_add_results[k].status = "notneeded"
                    /\ AddUrlCallsFor(dl_rows[k].filename_abs) = {}

\* add_urls has returned from two descriptors, the first of which failed
C10_Witness ==
    /\ dl_pc = "added"
    /\ Len(dl_rows) = 2
    /\ dl_add_results[1].status = "error"
    /\ dl_add_results[2].status = "ok"


\* the calls add_urls makes in a step for one row
AddUrlsStepCalls == SubSeq(dl_calls', Len(dl_calls) + 1, Len(dl_calls'))
\* the ops of those calls, all of them on the file of the row
AddUrlsStepOps ==
    IF \A k \in 1..Len(AddUrlsStepCalls) :
           AddUrlsStepCalls[k].path = dl_rows[dl_i].filename_abs
    THEN [k \in 1..Len(AddUrlsStepCalls) |-> AddUrlsStepCalls[k].op]
    ELSE <<"other path">>

\* C11: in add_urls, for a row whose file exists: under "skip" the outcome
\* is notneeded and neither os.unlink nor add_url_to_file is called; under
\* "overwrite" os.unlink is called and then add_url_to_file; under the
\* default add_url_to_file is called and nothing is removed.  For a file
\* that does not exist add_url_to_file is called and nothing is removed,
\* whatever the policy.
C11_PolicyDecidesRemoveAndAdd ==
    [][(dl_pc = "add_urls" /\ dl_i <= Len(dl_rows) /\ dl_i' = dl_i + 1) =>
          LET existed == dl_rows[dl_i].filename_abs \in dl_fs
              outcome == dl_add_results'[Len(dl_add_results')]
          IN  /\ Len(dl_add_results') = Len(dl_add_results) + 1
              /\ IF existed /\ dl_args.ifexists = "skip"
                 THEN AddUrlsStepOps = <<>> /\ outcome.status = "notneeded"
                 ELSE IF existed /\ dl_args.ifexists = "overwrite"
                 THEN AddUrlsStepOps = <<"unlink", "add_url">>
                      /\ outcome.status \in {"ok", "error"}
                 ELSE AddUrlsStepOps = <<"add_url">>
                      /\ outcome.status \in {"ok", "error"}]_vars

\* an existing file was removed and then added under "overwrite", and
\* another row's file did not exist
C11_Witness ==
    /\ dl_args.ifexists = "overwrite"
    /\ Len(dl_calls) >= 3
    /\ \E k \in 1..(Len(dl_calls) - 1) :
          /\ dl_calls[k].op = "unlink"
          /\ dl_calls[k + 1].op = "add_url"
          /\ dl_calls[k + 1].path = dl_calls[k].path
    /\ Cardinality({k \in 1..Len(dl_calls) : dl_calls[k].op = "add_url"}) = 2


\* C12: a dry run of dlplugin runs extract and the test for file name
\* collisions and makes no call that changes the dataset (no create, no
\* unlink, no add_url, no add, no set_metadata); with pairwise distinct
\* file names it ends with the single result "ok".
C12_DryRunNoMutation ==
    dl_args.dry_run =>
        /\ dl_calls = <<>>
        /\ dl_fs = dl_args.existing
        /\ (dl_pc = "done" /\ dl_args.url_file # "None" /\ dl_args.repo # "git") =>
              /\ extract(dl_args.extract).exc = None
              /\ dl_rows = extract(dl_args.extract).infos
              /\ Len(dl_results) = 1
              /\ dl_results[1].action = "addurls"
              /\ DlFilenamesDistinct => dl_results[1].status = "ok"

\* a dry run over two rows in a directory that is no dataset yet has ended
C12_Witness ==
    /\ dl_args.dry_run
    /\ dl_args.repo = "none"
    /\ dl_pc = "done"
    /\ Len(dl_rows) = 2
    /\ DlFilenamesDistinct
    /\ dl_results[1].status = "ok"


\* the set_metadata calls made so far, as <<path, meta_args>> in order
SetMetadataCalls ==
    LET calls == SelectSeq(dl_calls, LAMBDA c : c.op = "set_metadata")
    IN  [k \in 1..Len(calls) |-> <<calls[k].path, calls[k].arg>>]

\* the descriptors given to add_meta that have a non-empty meta_args
DlRowsWithMeta == SelectSeq(meta_rows, LAMBDA r : r.meta_args # <<>>)

\* C13: add_meta calls set_metadata once for each descriptor whose
\* meta_args is not empty, in the order of the descriptors, and not at all
\* for a descriptor whose meta_args is empty.
C13_SetMetadataOnlyNonEmpty ==
    (dl_pc = "done" /\ dl_files_to_add # {}) =>
        SetMetadataCalls =
            [k \in 1..Len(DlRowsWithMeta) |->
                <<DlRowsWithMeta[k].filename_abs, DlRowsWithMeta[k].meta_args>>]

\* C18: in a run that is not a dry run, set_metadata is called only for a
\* descriptor whose add_urls outcome was "ok", and only after add_urls has
\* gone through all rows; a row with outcome "notneeded" or "error" gets no
\* set_metadata call, and when no outcome is "ok" there is neither a
\* dataset.add nor a set_metadata call.
C18_MetadataOnlyAfterOkAdds ==
    /\ \A k \in 1..Len(dl_calls) :
          dl_calls[k].op = "set_metadata" =>
              /\ Len(dl_add_results) = Len(dl_rows)
              /\ \E n \in 1..Len(dl_add_results) :
                    /\ dl_add_results[n].path = dl_calls[k].path
                    /\ dl_add_results[n].status = "ok"
              /\ \A j \in 1..Len(dl_calls) :
                    dl_calls[j].op \in {"add_url", "unlink"} => j < k
    /\ (\E k \in 1..Len(dl_calls) : dl_calls[k].op \in {"add", "set_metadata"}) =>
          \E n \in 1..Len(dl_add_results) : dl_add_results[n].status = "ok"
    /\ ~dl_args.dry_run /\ dl_pc = "done" /\ dl_files_to_add # {} =>
          \A n \in 1..Len(dl_add_results) :
              dl_add_results[n].status = "ok" =>
                  \E k \in 1..Len(dl_calls) :
                      /\ dl_calls[k].op = "set_metadata"
                      /\ dl_calls[k].path = dl_add_results[n].path

\* a run has ended in which one row failed and another got its metadata set
C18_Witness ==
    /\ dl_pc = "done"
    /\ \E n \in 1..Len(dl_add_results) : dl_add_results[n].status = "error"
    /\ Len(SetMetadataCalls) = 1


----------------------------------------------------------------------------
(* Specification SpecFn: clean_meta_args, is_legal_metafield,              *)
(* filter_legal_metafield and get_url_names, each called once on an        *)
(* argument of its own.                                                    *)

\* strings given to clean_meta_args in one call
MaxArgs == 2
\* length of a name given to is_legal_metafield
MaxNameLen == 3
\* names given to filter_legal_metafield in one call
MaxFields == 3

\* resolved metadata strings: 'k=v', 'k=v=w', 'k', '=v', 'k=', ' k = v ', 'k= ', 'k=w', 'j=v', '='
FnMetaArgs ==
    { <<"k", "=", "v">>,
      <<"k", "=", "v", "=", "w">>,
      <<"k">>,
      <<"=", "v">>,
      <<"k", "=">>,
      <<" ", "k", " ", "=", " ", "v", " ">>,
      <<"k", "=", " ">>,
      <<"k", "=", "w">>,
      <<"j", "=", "v">>,
      <<"=">> }
\* characters of the names given to is_legal_metafield
FnNameChars == {"a", "Z", "1", "_", ".", "-", ":"}
\* 'a', 'A1.b-c_d', '_a', '', 'a:b', 'a_'
FnFieldNames ==
    { <<"a">>,
      <<"A", "1", ".", "b", "-", "c", "_", "d">>,
      <<"_", "a">>,
      <<>>,
      <<"a", ":", "b">>,
      <<"a", "_">> }
\* URLs: an optional scheme, an optional authority (also an empty one), a
\* path and an optional query
FnUrls ==
    { scheme \o authority \o path \o query :
        scheme \in {<<>>, <<"h", ":">>},
        authority \in {<<>>, <<"/", "/">>, <<"/", "/", "d">>},
        path \in {<<>>, <<"/">>, <<"/", "p">>, <<"/", "p", "/">>,
                  <<"/", "p", "/", "q">>, <<"/", "p", "/", "/", "q">>},
        query \in {<<>>, <<"?", "x">>} }

\* the generator (fmt(row) for fmt in formats_meta) that yields the strings
\* args: each string is the format string made of that literal text alone
FnFormats(args) ==
    [i \in 1..Len(args) |-> IF args[i] = <<>> THEN <<>> ELSE <<Lit(args[i])>>]

InitFn ==
    /\ \/ fn = "clean_meta_args" /\ fn_arg \in SeqsUpTo(FnMetaArgs, MaxArgs)
       \/ fn = "is_legal_metafield" /\ fn_arg \in SeqsUpTo(FnNameChars, MaxNameLen)
       \/ fn = "filter_legal_metafield" /\ fn_arg \in SeqsUpTo(FnFieldNames, MaxFields)
       \/ fn = "get_url_names" /\ fn_arg \in FnUrls
    /\ fn_result = <<>>
    /\ IdleRep
    /\ IdleSub
    /\ IdleFmt
    /\ IdleExt
    /\ IdleDl

NotFn == <<repVars, subVars, fmtVars, extVars, dlVars>>

CleanMetaArgs ==
    /\ fn = "clean_meta_args"
    /\ fn_result = <<>>
    /\ fn_result' = <<clean_meta_args([idx_to_name |-> <<>>, missing |-> None],
                                      FnFormats(fn_arg), <<>>)>>
    /\ UNCHANGED <<fn, fn_arg, NotFn>>

IsLegalMetafield ==
    /\ fn = "is_legal_metafield"
    /\ fn_result = <<>>
    /\ fn_result' = <<is_legal_metafield(fn_arg)>>
    /\ UNCHANGED <<fn, fn_arg, NotFn>>

FilterLegalMetafield ==
    /\ fn = "filter_legal_metafield"
    /\ fn_result = <<>>
    /\ fn_result' = <<filter_legal_metafield(fn_arg)>>
    /\ UNCHANGED <<fn, fn_arg, NotFn>>

GetUrlNames ==
    /\ fn = "get_url_names"
    /\ fn_result = <<>>
    /\ fn_result' = <<get_url_names(fn_arg)>>
    /\ UNCHANGED <<fn, fn_arg, NotFn>>

NextFn ==
    \/ CleanMetaArgs
    \/ IsLegalMetafield
    \/ FilterLegalMetafield
    \/ GetUrlNames

SpecFn == InitFn /\ [][NextFn]_vars


----------------------------------------------------------------------------
(* Claims about clean_meta_args (specification SpecFn)                     *)

\* position of the first "=" of arg, 0 if there is none
FirstEq(arg) ==
    IF \E i \in 1..Len(arg) : arg[i] = "="
    THEN CHOOSE i \in 1..Len(arg) : arg[i] = "=" /\ \A j \in 1..(i - 1) : arg[j] # "="
    ELSE 0
\* s without the blanks at its ends
Trimmed(s) ==
    LET inner == {i \in 1..Len(s) : s[i] # " "} IN
    IF inner = {} THEN <<>>
    ELSE SubSeq(s, CHOOSE i \in inner : \A j \in inner : i <= j,
                   CHOOSE i \in inner : \A j \in inner : j <= i)
\* the field name and the value of arg: the text before its first "=" and
\* all the text after it
ArgField(arg) == Trimmed(SubSeq(arg, 1, FirstEq(arg) - 1))
ArgValue(arg) == Trimmed(SubSeq(arg, FirstEq(arg) + 1, Len(arg)))
\* arg has no "=" or an empty field name
ArgIsError(arg) == FirstEq(arg) = 0 \/ ArgField(arg) = <<>>
CleanMetaArgsReturned == fn = "clean_meta_args" /\ fn_result # <<>>

\* C14: clean_meta_args splits each string at its first "=" only, so that
\* later "=" stay in the value; a string with no "=" or with an empty field
\* name makes the call raise, with no mapping returned; a string with an
\* empty value is skipped without error; the mapping returned holds, for
\* each field with a non-empty value, the value of the last such string,
\* and no empty value.
C14_SplitOnFirstEq ==
    CleanMetaArgsReturned =>
        LET res == fn_result[1]
            kept == {i \in 1..Len(fn_arg) : ArgValue(fn_arg[i]) # <<>>}
        IN  IF \E i \in 1..Len(fn_arg) : ArgIsError(fn_arg[i])
            THEN res.exc = ValueError /\ res.val = <<>>
            ELSE /\ res.exc = None
                 /\ DictKeys(res.val) = {ArgField(fn_arg[i]) : i \in kept}
                 /\ Len(res.val) = Cardinality(DictKeys(res.val))
                 /\ \A i \in kept :
                       (\A j \in kept : j > i => ArgField(fn_arg[j]) # ArgField(fn_arg[i]))
                           => DictGet(res.val, ArgField(fn_arg[i])) = ArgValue(fn_arg[i])
                 /\ \A k \in 1..Len(res.val) : res.val[k][2] # <<>>

\* clean_meta_args returned from a string with two "=" and a string with an
\* empty value
C14_Witness ==
    /\ CleanMetaArgsReturned
    /\ fn_arg = << <<"k", "=", "v", "=", "w">>, <<"k", "=">> >>
    /\ fn_result[1].val = << << <<"k">>, <<"v", "=", "w">> >> >>


----------------------------------------------------------------------------
(* Claims about is_legal_metafield and filter_legal_metafield (SpecFn)     *)

\* the alphanumeric characters of the grammar
GrammarAlnum ==
    {"0", "1", "2", "3", "4", "5", "6", "7", "8", "9",
     "A", "B", "C", "D", "E", "F", "G", "H", "I", "J", "K", "L", "M",
     "N", "O", "P", "Q", "R", "S", "T", "U", "V", "W", "X", "Y", "Z",
     "a", "b", "c", "d", "e", "f", "g", "h", "i", "j", "k", "l", "m",
     "n", "o", "p", "q", "r", "s", "t", "u", "v", "w", "x", "y", "z"}
\* name is a word of the grammar: at least one character, the first
\* alphanumeric, the later ones alphanumeric, "_", "." or "-"
InGrammar(name) ==
    /\ name # <<>>
    /\ Head(name) \in GrammarAlnum
    /\ {name[i] : i \in 2..Len(name)} \subseteq GrammarAlnum \cup {"_", ".", "-"}

\* C15: is_legal_metafield(name) is true exactly when name has at least one
\* character, its first character is alphanumeric and every later one is
\* alphanumeric, "_", "." or "-"; filter_legal_metafield returns exactly
\* the legal names of its argument, in their order.
C15_LegalExactlyGrammar ==
    /\ (fn = "is_legal_metafield" /\ fn_result # <<>>) =>
          (fn_result[1] <=> InGrammar(fn_arg))
    /\ (fn = "filter_legal_metafield" /\ fn_result # <<>>) =>
          fn_result[1] = SelectSeq(fn_arg, InGrammar)

\* filter_legal_metafield has dropped the name "_a", illegal for its first
\* character alone, between two names it kept
C15_Witness ==
    /\ fn = "filter_legal_metafield"
    /\ fn_arg = << <<"a">>, <<"_", "a">>, <<"a", "_">> >>
    /\ fn_result = << << <<"a">>, <<"a", "_">> >> >>


----------------------------------------------------------------------------
(* Claims about get_url_names (specification SpecFn)                       *)

\* the path of the URL without the separators at its ends
UrlStrippedPath ==
    LET path == urlparse(fn_arg).path
        inner == {i \in 1..Len(path) : path[i] # "/"}
    IN  IF inner = {} THEN <<>>
        ELSE SubSeq(path, CHOOSE i \in inner : \A j \in inner : i <= j,
                          CHOOSE i \in inner : \A j \in inner : j <= i)
\* its segments
UrlSegments == Split(UrlStrippedPath, SEP)
UrlName(n) == URL_ \o IntToStr(n)
GetUrlNamesReturned == fn = "get_url_names" /\ fn_result # <<>>

\* C16: get_url_names returns the empty mapping for a URL with no
\* authority; otherwise the mapping has _url_hostname, and when the path
\* without leading and trailing separators is not empty and has N+1
\* segments it has exactly _url0 .. _urlN besides, holding the segments in
\* order, and _url_basename with the value of _urlN; when that path is empty
\* _url_hostname is its only key.
C16_UrlNames ==
    GetUrlNamesReturned =>
        LET names == fn_result[1] IN
        IF urlparse(fn_arg).netloc = <<>> THEN names = <<>>
        ELSE /\ DictHas(names, URL_HOSTNAME)
             /\ Len(names) = Cardinality(DictKeys(names))
             /\ IF UrlStrippedPath = <<>> THEN DictKeys(names) = {URL_HOSTNAME}
                ELSE /\ DictKeys(names) =
                           {URL_HOSTNAME, URL_BASENAME}
                               \cup {UrlName(n) : n \in 0..(Len(UrlSegments) - 1)}
                     /\ \A n \in 0..(Len(UrlSegments) - 1) :
                           DictGet(names, UrlName(n)) = PyStr(UrlSegments[n + 1])
                     /\ DictGet(names, URL_BASENAME) =
                           DictGet(names, UrlName(Len(UrlSegments) - 1))

\* get_url_names returned the names of "h://d/p/q"
C16_Witness ==
    /\ GetUrlNamesReturned
    /\ fn_arg = <<"h", ":", "/", "/", "d", "/", "p", "/", "q">>
    /\ DictGet(fn_result[1], URL_HOSTNAME) = PyStr(<<"d">>)
    /\ DictGet(fn_result[1], URL_BASENAME) = PyStr(<<"q">>)
    /\ Len(fn_result[1]) = 4


----------------------------------------------------------------------------
(* Claims about the metadata templates of extract (SpecExt)                *)

\* the field the URL template stands for, None unless the template is one
\* placeholder and nothing else
ExtUrlField ==
    LET t == ext_args.url_format IN
    IF Len(t) = 1 /\ t[1].literal_text = <<>> /\ t[1].field_name \notin {None, <<>>}
    THEN IF /\ ext_args.input_type = "csv"
            /\ IsDecimal(t[1].field_name)
            /\ StrToInt(t[1].field_name) < Len(ext_args.stream.headers)
         THEN ext_args.stream.headers[StrToInt(t[1].field_name) + 1]
         ELSE t[1].field_name
    ELSE None
\* the field names auto-derived templates are expected for
ExtAutoNames ==
    IF ext_args.exclude_autometa \in {STAR, <<>>} \/ Len(ExtRows) = 0 THEN {}
    ELSE {c \in DictKeys(ExtRows[1]) :
             /\ c # ExtUrlField
             /\ ext_args.exclude_autometa # None => Find(c, ext_args.exclude_autometa, 1) = 0
             /\ InGrammar(c)}
\* the template name={name}
ExtAutoTemplate(c) == <<Field(c \o <<"=">>, c)>>

\* C17: unless exclude_autometa is "*" or "", the auto-derived templates of
\* extract are exactly one name={name} for each field name of the first
\* record that is not the one field the URL template stands for, does not
\* match the exclusion pattern and is a legal field name; with "*" or ""
\* there is none, and meta_args holds fields of explicit templates only.
C17_AutoTemplates ==
    /\ (ext_result # <<>> /\ (Len(ExtRows) > 0 \/ ext_args.exclude_autometa \in {STAR, <<>>})) =>
          LET auto == auto_meta_args(ext_args, ExtRows) IN
          /\ auto.exc = None
          /\ {auto.val[i] : i \in 1..Len(auto.val)} = {ExtAutoTemplate(c) : c \in ExtAutoNames}
          /\ Len(auto.val) = Cardinality(ExtAutoNames)
    /\ ExtReturned =>
          \A j \in 1..Len(ext_result[1].infos) :
              DictKeys(ext_result[1].infos[j].meta_args)
                  \subseteq ExtExplicitFields(j) \cup ExtAutoNames

\* csv input and the URL template "{0}", which stands for the column "u":
\* of the columns "u", "f" and "_m", all with a value, only "f" got a
\* template
C17_Witness ==
    /\ ExtReturned
    /\ ext_args.input_type = "csv"
    /\ ext_args.url_format = <<Field(<<>>, <<"0">>)>>
    /\ ext_args.exclude_autometa = None
    /\ ext_args.meta = <<>>
    /\ Len(ext_result[1].infos) = 2
    /\ DictGet(ExtRows[1], <<"_", "m">>) = PyStr(<<"v">>)
    /\ DictKeys(ext_result[1].infos[1].meta_args) = {<<"f">>}

\* the value the auto-derived template of c has for the j-th kept row
ExtAutoValue(j, c) ==
    ArgValue(Formatter_format(ExtSelf, ExtAutoTemplate(c), ExtRows[ExtKept[j]]))
\* the value the last explicit template with the field c has for that row
ExtExplicitValue(j, c) ==
    LET resolved == [m \in 1..Len(ext_args.meta) |->
                        Formatter_format(ExtSelf, ext_args.meta[m], ExtRows[ExtKept[j]])]
        last == CHOOSE m \in 1..Len(resolved) :
                    /\ ArgField(resolved[m]) = c
                    /\ \A n \in (m + 1)..Len(resolved) : ArgField(resolved[n]) # c
    IN  ArgValue(resolved[last])
\* the fields both an explicit and an auto-derived template give for the row
ExtSharedFields(j) == ExtExplicitFields(j) \cap ExtAutoNames

\* C19: when an explicit and an auto-derived template resolve to the same
\* field name for a row, meta_args holds the value of the auto-derived
\* template for that field.
C19_AutoValueWins ==
    ExtReturned =>
        \A j \in 1..Len(ext_result[1].infos) :
            \A c \in ExtSharedFields(j) :
                /\ DictHas(ext_result[1].infos[j].meta_args, c)
                /\ DictGet(ext_result[1].infos[j].meta_args, c) = ExtAutoValue(j, c)

\* C19 amended: for such a field meta_args holds the value of the
\* auto-derived template when that value is not empty; when it is empty the
\* auto-derived template is skipped and meta_args keeps the value of the
\* explicit template, or has no such field if that value is empty too.
C19_NonEmptyAutoValueWins ==
    ExtReturned =>
        \A j \in 1..Len(ext_result[1].infos) :
            \A c \in ExtSharedFields(j) :
                LET held == IF ExtAutoValue(j, c) # <<>> THEN ExtAutoValue(j, c)
                            ELSE ExtExplicitValue(j, c)
                IN  IF held = <<>>
                    THEN ~DictHas(ext_result[1].infos[j].meta_args, c)
                    ELSE /\ DictHas(ext_result[1].infos[j].meta_args, c)
                         /\ DictGet(ext_result[1].infos[j].meta_args, c) = held

\* the explicit template "f = {_m}" gave "v" and the auto-derived template
\* of "f" gave "x": meta_args holds "x"
C19_Witness ==
    /\ ExtReturned
    /\ Len(ext_result[1].infos) >= 1
    /\ <<"f">> \in ExtSharedFields(1)
    /\ ExtExplicitValue(1, <<"f">>) = <<"v">>
    /\ ExtAutoValue(1, <<"f">>) = <<"x">>
    /\ DictGet(ext_result[1].infos[1].meta_args, <<"f">>) = <<"x">>


====
